---- MODULE Spec2Model ----
(***************************************************************************)
(* Model of the STEM helper backend: the Express server printed in         *)
(* src/README.md (lines 234-486, "server.js (ESM, hardened)") with its     *)
(* routes /api/character, /api/story and /api/ask, the lazily constructed  *)
(* OpenAI client, the zod request and response schemas and the SSE relay.  *)
(*                                                                         *)
(* JavaScript runs a handler to completion between two awaits, so one      *)
(* action is one such run: the synchronous prefix of a handler up to its   *)
(* first await, or the continuation after an awaited promise settles.      *)
(***************************************************************************)
EXTENDS Integers, Sequences, FiniteSets, TLC

(* ------------------------------ bounds -------------------------------- *)
\* requests that can be in flight at once in the concurrent specification
MaxReqs == 2
\* chunks the upstream stream delivers at most before it ends or fails
MaxFrags == 3

(* --------------------------- JSON values ------------------------------ *)
\* A JavaScript/JSON value is a record tagged with its typeof-like kind.
Undef == [t |-> "undefined"]
NullV == [t |-> "null"]
Str(s) == [t |-> "string", v |-> s]
\* a number n (+ 1/2 when half): 2.5 is Num(2, TRUE)
Num(n, half) == [t |-> "number", v |-> n, half |-> half]
IntV(n) == Num(n, FALSE)
Arr(s) == [t |-> "array", v |-> s]
Obj(f) == [t |-> "object", v |-> f]

\* the object literal with the keys of rec whose value is not undefined
MkObj(rec) == Obj([k \in {k \in DOMAIN rec : rec[k] # Undef} |-> rec[k]])

\* property read obj.k (undefined when the key is absent)
Get(x, k) == IF x.t = "object" /\ k \in DOMAIN x.v THEN x.v[k] ELSE Undef

\* JavaScript truthiness: !x is true for undefined, null, "", 0
Truthy(x) ==
  CASE x.t = "undefined" -> FALSE
    [] x.t = "null" -> FALSE
    [] x.t = "string" -> x.v # ""
    [] x.t = "number" -> ~(x.v = 0 /\ ~x.half)
    [] OTHER -> TRUE

RECURSIVE JoinStr(_, _)
\* Array.prototype.join over an array of strings and numbers
JoinStr(s, sep) ==
  IF s = <<>> THEN ""
  ELSE LET h == IF Head(s).t = "string" THEN Head(s).v ELSE ToString(Head(s).v)
       IN IF Len(s) = 1 THEN h ELSE h \o sep \o JoinStr(Tail(s), sep)

(* ------------------------------- zod ---------------------------------- *)
\* A field parser yields [ok, v]: ok is FALSE when the field raises an issue.
\* ZDefault with the default forgotten
ZDefault_None(x, d) == x

\* .default(d): an undefined input is replaced by d before the inner schema
ZDefault(x, d) == IF x = Undef THEN d ELSE x

\* ZString that coerces: anything but a string becomes ""
ZString_Lenient(x) == [ok |-> TRUE, v |-> IF x.t = "string" THEN x ELSE Str("")]

\* z.string()
ZString(x) == [ok |-> x.t = "string", v |-> x]

\* z.string().min(n)
ZStringMin(x, n) == [ok |-> x.t = "string" /\ Len(x.v) >= n, v |-> x]

\* ZIntRange with exclusive limits: lo and hi themselves are refused
ZIntRange_Exclusive(x, lo, hi) ==
  [ok |-> x.t = "number" /\ ~x.half /\ x.v > lo /\ x.v < hi, v |-> x]

\* z.number().int().min(lo).max(hi)
ZIntRange(x, lo, hi) ==
  [ok |-> x.t = "number" /\ ~x.half /\ x.v >= lo /\ x.v <= hi, v |-> x]

\* z.number()
ZNumber(x) == [ok |-> x.t = "number", v |-> x]

\* z.array(z.any())
ZArrayAny(x) == [ok |-> x.t = "array", v |-> x]

\* z.array(z.string())
ZArrayStr(x) ==
  [ok |-> x.t = "array" /\ \A i \in 1..Len(x.v) : x.v[i].t = "string", v |-> x]

\* ZObject as .passthrough(): unknown keys are kept
ZObject_Passthrough(x, keys, f) ==
  IF x.t # "object"
  THEN [ok |-> FALSE, value |-> Undef, message |-> "ZodError: expected object"]
  ELSE LET bad == SelectSeq(keys, LAMBDA k : ~f[k].ok)
           shape == {keys[i] : i \in 1..Len(keys)}
       IN IF bad = <<>>
          THEN [ok |-> TRUE,
                value |-> Obj([k \in shape \cup DOMAIN x.v |->
                                 IF k \in shape THEN f[k].v ELSE x.v[k]]),
                message |-> ""]
          ELSE [ok |-> FALSE, value |-> Undef,
                message |-> "ZodError: " \o JoinStr([i \in 1..Len(bad) |-> Str(bad[i])], ",")]

\* z.object({...}).parse(x): keys is the shape in declaration order and f
\* maps each key to its field parser's result. Unknown keys are stripped;
\* the error's message is abridged to the offending paths.
ZObject(x, keys, f) ==
  IF x.t # "object"
  THEN [ok |-> FALSE, value |-> Undef, message |-> "ZodError: expected object"]
  ELSE LET bad == SelectSeq(keys, LAMBDA k : ~f[k].ok)
       IN IF bad = <<>>
          THEN [ok |-> TRUE,
                value |-> Obj([k \in {keys[i] : i \in 1..Len(keys)} |-> f[k].v]),
                message |-> ""]
          ELSE [ok |-> FALSE, value |-> Undef,
                message |-> "ZodError: " \o JoinStr([i \in 1..Len(bad) |-> Str(bad[i])], ",")]

(* ----------------------------- schemas -------------------------------- *)
\* the en dash of "ages 6-10" and "6-10" in the source is written as a hyphen
DefaultPrompt == "Create a kid-friendly STEM character."
DefaultAudience == "ages 6-10"
DefaultStyle == "bright 2D cartoon"
DefaultConstraints == "original; no resemblance to existing IP"

CharacterReqKeys == <<"prompt", "audience", "style", "constraints">>

CharacterReq(x) ==
  ZObject(x, CharacterReqKeys,
    [prompt |-> ZStringMin(ZDefault(Get(x, "prompt"), Str(DefaultPrompt)), 1),
     audience |-> ZString(ZDefault(Get(x, "audience"), Str(DefaultAudience))),
     style |-> ZString(ZDefault(Get(x, "style"), Str(DefaultStyle))),
     constraints |-> ZString(ZDefault(Get(x, "constraints"), Str(DefaultConstraints)))])

CharacterResKeys ==
  <<"name", "species_or_type", "visual_description", "personality", "catchphrases",
    "strengths", "quirks", "stem_domain", "color_palette", "do_not_copy">>

CharacterRes(x) ==
  ZObject(x, CharacterResKeys,
    [name |-> ZString(Get(x, "name")),
     species_or_type |-> ZString(Get(x, "species_or_type")),
     visual_description |-> ZString(Get(x, "visual_description")),
     personality |-> ZString(Get(x, "personality")),
     catchphrases |-> ZArrayStr(ZDefault(Get(x, "catchphrases"), Arr(<<>>))),
     strengths |-> ZArrayStr(ZDefault(Get(x, "strengths"), Arr(<<>>))),
     quirks |-> ZArrayStr(ZDefault(Get(x, "quirks"), Arr(<<>>))),
     stem_domain |-> ZString(Get(x, "stem_domain")),
     color_palette |-> ZArrayStr(ZDefault(Get(x, "color_palette"), Arr(<<>>))),
     do_not_copy |-> ZString(Get(x, "do_not_copy"))])

DefaultTitle == "Adventure in Volcano Valley"
DefaultTopic == "volcano science"
DefaultTargetAge == "6-10"
DefaultMinutes == 3
MinMinutes == 1
MaxMinutes == 15
DefaultMoral == "Curiosity + safety"
DefaultGoals ==
  <<Str("Basic volcano formation"), Str("Safety around natural phenomena"),
    Str("Scientific observation skills")>>

StoryReqKeys ==
  <<"title", "topic", "target_age", "minutes", "characters", "moral", "educational_goals">>

StoryReq(x) ==
  ZObject(x, StoryReqKeys,
    [title |-> ZString(ZDefault(Get(x, "title"), Str(DefaultTitle))),
     topic |-> ZString(ZDefault(Get(x, "topic"), Str(DefaultTopic))),
     target_age |-> ZString(ZDefault(Get(x, "target_age"), Str(DefaultTargetAge))),
     minutes |-> ZIntRange(ZDefault(Get(x, "minutes"), IntV(DefaultMinutes)),
                           MinMinutes, MaxMinutes),
     characters |-> ZArrayAny(ZDefault(Get(x, "characters"), Arr(<<>>))),
     moral |-> ZString(ZDefault(Get(x, "moral"), Str(DefaultMoral))),
     educational_goals |->
       ZArrayStr(ZDefault(Get(x, "educational_goals"), Arr(DefaultGoals)))])

SceneKeys == <<"setting", "action", "dialogue", "duration">>

\* z.object({setting, action, dialogue, duration}) of one scene
Scene(x) ==
  ZObject(x, SceneKeys,
    [setting |-> ZString(Get(x, "setting")),
     action |-> ZString(Get(x, "action")),
     dialogue |-> ZString(Get(x, "dialogue")),
     duration |-> ZNumber(Get(x, "duration"))])

\* z.array(Scene): every element parsed (and stripped) by Scene
ZArrayScene(x) ==
  IF x.t = "array" /\ \A i \in 1..Len(x.v) : Scene(x.v[i]).ok
  THEN [ok |-> TRUE, v |-> Arr([i \in 1..Len(x.v) |-> Scene(x.v[i]).value])]
  ELSE [ok |-> FALSE, v |-> x]

StoryResKeys ==
  <<"title", "opening", "scenes", "closing", "moral", "educational_goals",
    "total_duration">>

StoryRes(x) ==
  ZObject(x, StoryResKeys,
    [title |-> ZString(Get(x, "title")),
     opening |-> ZString(Get(x, "opening")),
     scenes |-> ZArrayScene(Get(x, "scenes")),
     closing |-> ZString(Get(x, "closing")),
     moral |-> ZString(Get(x, "moral")),
     educational_goals |-> ZArrayStr(Get(x, "educational_goals")),
     total_duration |-> ZNumber(Get(x, "total_duration"))])

(* ----------------------------- helpers -------------------------------- *)
\* The gateway's message content: malformed text, or the serialisation of a
\* JSON value (wf: the text is syntactically valid JSON; doc: what it denotes)
Text(wf, doc) == [wf |-> wf, doc |-> doc]

\* safeParseJSON: JSON.parse, with null in place of a SyntaxError
safeParseJSON(str) == IF str.wf THEN str.doc ELSE NullV

(* ------------------------------ state --------------------------------- *)
VARIABLES
  apiKey,       \* process.env.OPENAI_API_KEY is set
  openai,       \* the module-level client handle: 0 is null, h > 0 a client
  constructed,  \* how many times new OpenAI(...) has run
  req           \* per request slot: the handler's locals and its response

vars == <<apiKey, openai, constructed, req>>

Reqs == 1..MaxReqs

\* a request slot before any request, and the fields a handler starts from:
\*   pc: "idle", "create" (awaiting chat.completions.create), "stream"
\*       (inside for await), "done" (the handler returned) or "rejected"
\*       (an exception left the handler: its promise is rejected)
\*   cause: why the request failed ("" if it has not): "validation",
\*       "credential", "gateway", "parse", "shape", "stream" or "send"
\*   frames: what res.write delivered to the caller, in order
\*   lateReads, lateWrites: chunks read from the gateway, and res.write
\*       calls made, after the caller had disconnected
Fresh(route, body) ==
  [route |-> route, body |-> body, pc |-> "idle", validated |-> Undef,
   client |-> 0, calls |-> <<>>, text |-> Undef, status |-> 200,
   headersSent |-> FALSE, resBody |-> Undef, frames |-> <<>>, ended |-> FALSE,
   connected |-> TRUE, chunks |-> <<>>, lateReads |-> 0, lateWrites |-> 0,
   cause |-> "", error |-> ""]

Idle == Fresh("none", Undef)

(* ------------------------- the gateway client -------------------------- *)
\* getOpenAI without the `if (!openai)` guard: a new client on every call
GetOpenAI_NoGuard(key, cur, n) ==
  IF ~key
  THEN [threw |-> TRUE, client |-> 0, openai |-> cur, constructed |-> n]
  ELSE [threw |-> FALSE, client |-> n + 1, openai |-> n + 1, constructed |-> n + 1]

\* getOpenAI without the check of process.env.OPENAI_API_KEY: a client is
\* constructed whether or not the credential is set
GetOpenAI_NoKeyCheck(key, cur, n) ==
  IF cur = 0
  THEN [threw |-> FALSE, client |-> n + 1, openai |-> n + 1, constructed |-> n + 1]
  ELSE [threw |-> FALSE, client |-> cur, openai |-> cur, constructed |-> n]

\* getOpenAI(): [threw, client] and the new values of the two globals
GetOpenAI(key, cur, n) ==
  IF cur = 0
  THEN IF ~key
       THEN [threw |-> TRUE, client |-> 0, openai |-> cur, constructed |-> n]
       ELSE [threw |-> FALSE, client |-> n + 1, openai |-> n + 1, constructed |-> n + 1]
  ELSE [threw |-> FALSE, client |-> cur, openai |-> cur, constructed |-> n]

(* ---------------------------- the response ----------------------------- *)
\* res.status(code).json(body): sets the status code, then throws
\* ERR_HTTP_HEADERS_SENT when the head has already been written
ResJson(q, code, body) ==
  IF q.headersSent
  THEN [threw |-> TRUE, q |-> [q EXCEPT !.status = code]]
  ELSE [threw |-> FALSE,
        q |-> [q EXCEPT !.status = code, !.headersSent = TRUE,
                        !.resBody = body, !.ended = TRUE]]

\* sendSSEHeaders(res): res.writeHead(200, {...})
sendSSEHeaders(q) == [q EXCEPT !.status = 200, !.headersSent = TRUE]

\* res.write(data): delivered while the caller is connected, dropped after
ResWrite(q, data) ==
  IF q.connected
  THEN [q EXCEPT !.frames = Append(@, data)]
  ELSE [q EXCEPT !.lateWrites = @ + 1]

\* a catch block: log, then res.status(500).json({error, details}); an
\* exception thrown inside the catch block rejects the handler's promise,
\* which Express 4 (express ^4.19.2 in the backend's package.json) leaves
\* unhandled: nothing ends the response
Catch(q, label, cause, message) ==
  LET r == ResJson([q EXCEPT !.cause = cause, !.error = message], 500,
                   MkObj([error |-> Str(label), details |-> Str(message)]))
  IN [r.q EXCEPT !.pc = IF r.threw THEN "rejected" ELSE "done"]

(* --------------------------- /api/character ---------------------------- *)
CharacterSystem ==
  "You are a character designer for STEM education. Create original, engaging characters that inspire curiosity about science, technology, engineering, and math."

\* the user message of /api/character, a template literal over the body
CharacterPrompt(b) ==
  "Design a character with these requirements: " \o Get(b, "prompt").v
    \o ". Target audience: " \o Get(b, "audience").v
    \o ". Style: " \o Get(b, "style").v
    \o ". Constraints: " \o Get(b, "constraints").v

\* CharacterSync with its first two statements swapped: the client is
\* obtained before the body is validated
CharacterSync_ClientFirst(body, key, cur, n) ==
  LET q0 == Fresh("character", body)
      v == CharacterReq(body)
      c == GetOpenAI(key, cur, n)
  IN IF c.threw
     THEN [q |-> Catch(q0, "Character generation failed", "credential",
                       "OPENAI_API_KEY not set"),
           openai |-> c.openai, constructed |-> c.constructed]
     ELSE IF ~v.ok
     THEN [q |-> Catch([q0 EXCEPT !.client = c.client],
                       "Character generation failed", "validation", v.message),
           openai |-> c.openai, constructed |-> c.constructed]
     ELSE [q |-> [q0 EXCEPT !.validated = v.value, !.client = c.client,
                            !.calls = <<[mode |-> "blocking",
                                         system |-> CharacterSystem,
                                         user |-> CharacterPrompt(v.value)]>>,
                            !.pc = "create"],
           openai |-> c.openai, constructed |-> c.constructed]

\* the handler up to its await: validate, get the client, call the gateway
CharacterSync(body, key, cur, n) ==
  LET q0 == Fresh("character", body)
      v == CharacterReq(body)
      c == GetOpenAI(key, cur, n)
  IN IF ~v.ok
     THEN [q |-> Catch(q0, "Character generation failed", "validation", v.message),
           openai |-> cur, constructed |-> n]
     ELSE IF c.threw
     THEN [q |-> Catch([q0 EXCEPT !.validated = v.value],
                       "Character generation failed", "credential",
                       "OPENAI_API_KEY not set"),
           openai |-> c.openai, constructed |-> c.constructed]
     ELSE [q |-> [q0 EXCEPT !.validated = v.value, !.client = c.client,
                            !.calls = <<[mode |-> "blocking",
                                         system |-> CharacterSystem,
                                         user |-> CharacterPrompt(v.value)]>>,
                            !.pc = "create"],
           openai |-> c.openai, constructed |-> c.constructed]

\* the handler after the gateway answered with content `text`
CharacterResume(q, text) ==
  LET q1 == [q EXCEPT !.text = text]
      parsed == safeParseJSON(text)
      result == CharacterRes(parsed)
  IN IF ~Truthy(parsed)
     THEN Catch(q1, "Character generation failed", "parse",
                "Failed to parse OpenAI response")
     ELSE IF ~result.ok
     THEN Catch(q1, "Character generation failed", "shape", result.message)
     ELSE LET r == ResJson(q1, 200, result.value)
          IN IF r.threw
             THEN Catch(r.q, "Character generation failed", "send", "headers sent")
             ELSE [r.q EXCEPT !.pc = "done"]

(* ----------------------------- /api/story ------------------------------ *)
StorySystem ==
  "You are a storyteller for STEM education. Create engaging, educational stories that make complex concepts accessible to children."

\* the user message of /api/story
StoryPrompt(b) ==
  "Create a story about " \o Get(b, "topic").v
    \o " for ages " \o Get(b, "target_age").v
    \o ". Duration: " \o ToString(Get(b, "minutes").v) \o " minutes"
    \o ". Include these characters: " \o JoinStr(Get(b, "characters").v, ", ")
    \o ". Moral: " \o Get(b, "moral").v
    \o ". Educational goals: " \o JoinStr(Get(b, "educational_goals").v, ", ")

StorySync(body, key, cur, n) ==
  LET q0 == Fresh("story", body)
      v == StoryReq(body)
      c == GetOpenAI(key, cur, n)
  IN IF ~v.ok
     THEN [q |-> Catch(q0, "Story generation failed", "validation", v.message),
           openai |-> cur, constructed |-> n]
     ELSE IF c.threw
     THEN [q |-> Catch([q0 EXCEPT !.validated = v.value],
                       "Story generation failed", "credential",
                       "OPENAI_API_KEY not set"),
           openai |-> c.openai, constructed |-> c.constructed]
     ELSE [q |-> [q0 EXCEPT !.validated = v.value, !.client = c.client,
                            !.calls = <<[mode |-> "blocking",
                                         system |-> StorySystem,
                                         user |-> StoryPrompt(v.value)]>>,
                            !.pc = "create"],
           openai |-> c.openai, constructed |-> c.constructed]

StoryResume(q, text) ==
  LET q1 == [q EXCEPT !.text = text]
      parsed == safeParseJSON(text)
      result == StoryRes(parsed)
  IN IF ~Truthy(parsed)
     THEN Catch(q1, "Story generation failed", "parse",
                "Failed to parse OpenAI response")
     ELSE IF ~result.ok
     THEN Catch(q1, "Story generation failed", "shape", result.message)
     ELSE LET r == ResJson(q1, 200, result.value)
          IN IF r.threw
             THEN Catch(r.q, "Story generation failed", "send", "headers sent")
             ELSE [r.q EXCEPT !.pc = "done"]

(* ------------------------------ /api/ask ------------------------------- *)
AskSystem ==
  "You are a friendly STEM tutor for kids. Keep answers simple, engaging, and age-appropriate."

\* JSON.stringify of a string without characters that need escaping
JsonString(s) == "\"" \o s \o "\""

\* the SSE frame of one fragment: `data: ${JSON.stringify({ content })}\n\n`
DataFrame(content) == "data: {\"content\":" \o JsonString(content) \o "}\n\n"

DoneFrame == "data: [DONE]\n\n"

\* AskSync with the client obtained before the question is checked
AskSync_ClientFirst(body, key, cur, n) ==
  LET q0 == Fresh("ask", body)
      question == Get(body, "question")
      c == GetOpenAI(key, cur, n)
  IN IF c.threw
     THEN [q |-> Catch(q0, "Ask endpoint failed", "credential",
                       "OPENAI_API_KEY not set"),
           openai |-> c.openai, constructed |-> c.constructed]
     ELSE IF ~Truthy(question)
     THEN [q |-> [ResJson([q0 EXCEPT !.client = c.client], 400,
                          MkObj([error |-> Str("Question is required")])).q
                    EXCEPT !.pc = "done", !.cause = "validation"],
           openai |-> c.openai, constructed |-> c.constructed]
     ELSE [q |-> [sendSSEHeaders(q0)
                    EXCEPT !.client = c.client,
                           !.calls = <<[mode |-> "stream", system |-> AskSystem,
                                        user |-> question]>>,
                           !.pc = "create"],
           openai |-> c.openai, constructed |-> c.constructed]

\* the handler up to its await: check the question, get the client, send
\* the SSE head, call the gateway in streaming mode
AskSync(body, key, cur, n) ==
  LET q0 == Fresh("ask", body)
      question == Get(body, "question")
      c == GetOpenAI(key, cur, n)
  IN IF ~Truthy(question)
     THEN [q |-> [ResJson(q0, 400, MkObj([error |-> Str("Question is required")])).q
                    EXCEPT !.pc = "done", !.cause = "validation"],
           openai |-> cur, constructed |-> n]
     ELSE IF c.threw
     THEN [q |-> Catch(q0, "Ask endpoint failed", "credential",
                       "OPENAI_API_KEY not set"),
           openai |-> c.openai, constructed |-> c.constructed]
     ELSE [q |-> [sendSSEHeaders(q0)
                    EXCEPT !.client = c.client,
                           !.calls = <<[mode |-> "stream", system |-> AskSystem,
                                        user |-> question]>>,
                           !.pc = "create"],
           openai |-> c.openai, constructed |-> c.constructed]

\* AskChunk without `if (content)`: a frame for every chunk
AskChunk_Unfiltered(q, content) ==
  ResWrite([q EXCEPT !.chunks = Append(@, content),
                     !.lateReads = IF q.connected THEN @ ELSE @ + 1],
           IF content.t = "string" THEN DataFrame(content.v) ELSE "data: {}\n\n")

\* one turn of `for await (const chunk of stream)`: content is
\* chunk.choices[0]?.delta?.content, written as a frame when truthy
AskChunk(q, content) ==
  LET q1 == [q EXCEPT !.chunks = Append(@, content),
                      !.lateReads = IF q.connected THEN @ ELSE @ + 1]
  IN IF Truthy(content) THEN ResWrite(q1, DataFrame(content.v)) ELSE q1

\* after the loop: res.write("data: [DONE]\n\n"); res.end()
AskEnd(q) == [ResWrite(q, DoneFrame) EXCEPT !.ended = TRUE, !.pc = "done"]

(* --------------- server.backup.js: its own POST /api/ask --------------- *)
\* The backup server is a separate program: its client is built when the
\* module loads (line 18), so its requests never go through getOpenAI and
\* leave the client field 0.
BackupSystem ==
  "You are a STEM-for-kids helper for parents. Keep answers friendly, concise, age-appropriate. If chemicals/heat are involved, include a 1-line safety note and 'adult supervision'."

DefaultChildAge == Str("8-12")

\* `QUESTION: ${question}\nCHILD_AGE: ${child_age}`
BackupPrompt(question, child_age) ==
  "QUESTION: " \o question.v \o "\nCHILD_AGE: " \o child_age.v

BackupTrailer == "\n[stream closed due to error]"

\* the catch block: a JSON 500 while the head is unsent, otherwise the
\* trailer through res.end(...); status is e?.status ?? null
BackupCatch(q, cause, message, status) ==
  LET q1 == [q EXCEPT !.cause = cause, !.error = message]
  IN IF ~q1.headersSent
     THEN [ResJson(q1, 500, MkObj([error |-> Str("ask_failed"), status |-> status])).q
             EXCEPT !.pc = "done"]
     ELSE [ResWrite(q1, BackupTrailer) EXCEPT !.ended = TRUE, !.pc = "done"]

\* the handler up to its await: destructure the body with the default
\* child_age, check the question, write the SSE head, call the gateway
BackupAskSync(body) ==
  LET q0 == Fresh("ask_backup", body)
      question == Get(body, "question")
      child_age == IF Get(body, "child_age") = Undef THEN DefaultChildAge
                   ELSE Get(body, "child_age")
  IN IF ~Truthy(question) \/ question.t # "string"
     THEN [ResJson(q0, 400, MkObj([error |-> Str("question is required")])).q
             EXCEPT !.pc = "done", !.cause = "validation"]
     ELSE [sendSSEHeaders(q0)
             EXCEPT !.calls = <<[mode |-> "stream", system |-> BackupSystem,
                                 user |-> BackupPrompt(question, child_age)]>>,
                    !.pc = "b_create"]

\* one turn of `for await (const part of stream)`: the raw delta is written
\* when truthy
BackupChunk(q, content) ==
  LET q1 == [q EXCEPT !.chunks = Append(@, content)]
  IN IF Truthy(content) THEN ResWrite(q1, content.v) ELSE q1

\* after the loop: res.end()
BackupEnd(q) == [q EXCEPT !.ended = TRUE, !.pc = "done"]

(* ------------------------------- /healthz ------------------------------ *)
\* new Date().toISOString(): some timestamp string
Timestamp == Str("<timestamp>")

\* the whole handler: res.json({ status: "healthy", timestamp })
Healthz ==
  [ResJson(Fresh("healthz", Undef), 200,
           MkObj([status |-> Str("healthy"), timestamp |-> Timestamp])).q
     EXCEPT !.pc = "done"]

(* ------------- src/server.js: its copy of POST /api/character ---------- *)
\* This copy hands req.body, already parsed by express.json(), to
\* safeParseJSON. The file breaks off inside the awaited create call; what
\* follows the call, and the catch block, are read from the copy of the
\* handler in README.md.

\* String(x), the coercion JSON.parse applies to an argument that is not a
\* string: "[object Object]" for an object, the elements joined by "," for
\* an array
JsString(x) ==
  CASE x.t = "object" -> "[object Object]"
    [] x.t = "array" -> JoinStr(x.v, ",")
    [] x.t = "string" -> x.v
    [] OTHER -> ToString(x.v)

PromptOnlyText == "{\"prompt\":\"<prompt>\"}"

\* JSON.parse over the texts that String(req.body) yields here: the few
\* that are JSON, each with its document; any other is a SyntaxError
JsonText(s) ==
  CASE s = "{}" -> Text(TRUE, Obj(<<>>))
    [] s = PromptOnlyText -> Text(TRUE, MkObj([prompt |-> Str("<prompt>")]))
    [] s = "7" -> Text(TRUE, IntV(7))
    [] s = "0" -> Text(TRUE, IntV(0))
    [] OTHER -> Text(FALSE, Undef)

\* the visible head of this copy's system message
ServerJsCharacterSystem ==
  "You are a STEM character designer. Create engaging, educat"

\* the handler up to its await: safeParseJSON(req.body), the 400 for a null
\* result, validation, the client, the gateway call
ServerJsCharacterSync(body, key, cur, n) ==
  LET q0 == Fresh("character_sjs", body)
      parsed == safeParseJSON(JsonText(JsString(body)))
      v == CharacterReq(parsed)
      c == GetOpenAI(key, cur, n)
  IN IF ~Truthy(parsed)
     THEN [q |-> [ResJson(q0, 400, MkObj([error |-> Str("Invalid JSON")])).q
                    EXCEPT !.pc = "done", !.cause = "body"],
           openai |-> cur, constructed |-> n]
     ELSE IF ~v.ok
     THEN [q |-> Catch(q0, "Character generation failed", "validation", v.message),
           openai |-> cur, constructed |-> n]
     ELSE IF c.threw
     THEN [q |-> Catch([q0 EXCEPT !.validated = v.value],
                       "Character generation failed", "credential",
                       "OPENAI_API_KEY not set"),
           openai |-> c.openai, constructed |-> c.constructed]
     ELSE [q |-> [q0 EXCEPT !.validated = v.value, !.client = c.client,
                            !.calls = <<[mode |-> "blocking",
                                         system |-> ServerJsCharacterSystem]>>,
                            !.pc = "s_create"],
           openai |-> c.openai, constructed |-> c.constructed]

(* ------------------------------ inputs --------------------------------- *)
\* a value of field k that names the field, so that a mix-up of fields shows
Val(k) == Str("<" \o k \o ">")

\* request bodies of /api/character: every field absent, a string or, for
\* some, of the wrong type; with and without a key the schema does not know
CharacterBodies ==
  { MkObj([prompt |-> p, audience |-> a, style |-> s, constraints |-> c, child_age |-> x]) :
      p \in {Undef, Val("prompt"), Str(""), IntV(7)},
      a \in {Undef, Val("audience"), NullV},
      s \in {Undef, Val("style")},
      c \in {Undef, Val("constraints")},
      x \in {Undef, Str("8-12")} }
  \cup {Arr(<<>>)}

\* request bodies of /api/story
StoryBodies ==
  { MkObj([title |-> ti, topic |-> to, target_age |-> ta, minutes |-> m,
           characters |-> ch, moral |-> mo, educational_goals |-> g]) :
      ti \in {Undef, Val("title")},
      to \in {Undef, Val("topic"), IntV(7)},
      ta \in {Undef, Val("target_age")},
      m \in {Undef, IntV(-1), IntV(0), IntV(1), IntV(15), IntV(16), Num(2, TRUE),
             Str("3"), NullV},
      ch \in {Undef, Arr(<<Str("Ada"), IntV(2)>>), Str("Ada")},
      mo \in {Undef, Val("moral")},
      g \in {Undef, Arr(<<Str("g1"), Str("g2")>>), Arr(<<IntV(1)>>)} }
  \cup {Arr(<<>>)}

\* request bodies of /api/ask
AskBodies ==
  {MkObj([question |-> x]) : x \in {Undef, Str(""), Str("why"), IntV(7), NullV}}

\* a CharacterRes document with every field
CharacterDoc ==
  [name |-> Val("name"), species_or_type |-> Val("species_or_type"),
   visual_description |-> Val("visual_description"),
   personality |-> Val("personality"),
   catchphrases |-> Arr(<<Str("c1"), Str("c2")>>),
   strengths |-> Arr(<<Str("s1")>>), quirks |-> Arr(<<>>),
   stem_domain |-> Val("stem_domain"), color_palette |-> Arr(<<Str("red")>>),
   do_not_copy |-> Val("do_not_copy"), extra |-> Undef]

OptionalKeys == {"catchphrases", "strengths", "quirks", "color_palette"}

\* what the gateway may answer on /api/character: the full document, the
\* document without some optional arrays, with an unknown key, with one
\* field missing or of the wrong type; JSON that is no object; malformed text
CharacterDocs ==
  { MkObj([k \in DOMAIN CharacterDoc |->
             IF k \in omit THEN Undef
             ELSE IF k = "extra" THEN x ELSE CharacterDoc[k]]) :
      omit \in SUBSET OptionalKeys, x \in {Undef, Str("more")} }
  \cup { MkObj([CharacterDoc EXCEPT ![k] = bad]) :
           k \in DOMAIN CharacterDoc \ {"extra"},
           bad \in {Undef, IntV(7), NullV, Arr(<<IntV(7)>>)} }
  \cup {NullV, IntV(0), Str(""), Str("text"), Arr(<<>>), Obj(<<>>)}

CharacterTexts == {Text(TRUE, d) : d \in CharacterDocs} \cup {Text(FALSE, Undef)}

SceneDoc ==
  [setting |-> Val("setting"), action |-> Val("action"),
   dialogue |-> Val("dialogue"), duration |-> IntV(30), camera |-> Undef]

StoryDoc ==
  [title |-> Val("title"), opening |-> Val("opening"),
   scenes |-> Arr(<<MkObj(SceneDoc)>>), closing |-> Val("closing"),
   moral |-> Val("moral"), educational_goals |-> Arr(<<Str("g1")>>),
   total_duration |-> IntV(30), extra |-> Undef]

StoryDocs ==
  { MkObj([StoryDoc EXCEPT !.scenes = sc, !.extra = x]) :
      sc \in {Arr(<<>>), Arr(<<MkObj(SceneDoc)>>),
              Arr(<<MkObj(SceneDoc), MkObj([SceneDoc EXCEPT !.camera = Str("pan")])>>),
              Arr(<<MkObj([SceneDoc EXCEPT !.dialogue = Undef])>>),
              Arr(<<MkObj([SceneDoc EXCEPT !.duration = Str("30")])>>)},
      x \in {Undef, Str("more")} }
  \cup { MkObj([StoryDoc EXCEPT ![k] = bad]) :
           k \in DOMAIN StoryDoc \ {"extra"},
           bad \in {Undef, IntV(7), Str("x"), NullV} }
  \cup {NullV, IntV(0), Str(""), Arr(<<>>), Obj(<<>>)}

StoryTexts == {Text(TRUE, d) : d \in StoryDocs} \cup {Text(FALSE, Undef)}

\* delta.content of one streamed chunk: a fragment, "", or no content
ChunkContents == {Str("Hel"), Str("lo"), Str(""), Undef}

\* request bodies of the backup server's /api/ask
BackupBodies ==
  { MkObj([question |-> x, child_age |-> a]) :
      x \in {Undef, Str(""), Str("why"), IntV(7), NullV},
      a \in {Undef, Str("5-7")} }

\* e.status of what the gateway call or the stream throws: an HTTP status of
\* an API error, or none for a connection error
ErrorStatuses == {IntV(401), Undef}

\* what express.json() hands to this copy as req.body: objects (the empty
\* one too, also set when the request has no JSON body) and arrays
ServerJsBodies ==
  { MkObj(<<>>), MkObj([prompt |-> Val("prompt")]), MkObj([prompt |-> IntV(7)]),
    MkObj([prompt |-> Val("prompt"), audience |-> Val("audience"),
           style |-> Val("style"), constraints |-> Val("constraints")]),
    Arr(<<>>), Arr(<<Str("{}")>>), Arr(<<Str(PromptOnlyText)>>),
    Arr(<<IntV(7)>>), Arr(<<IntV(0)>>), Arr(<<Str("a"), Str("b")>>) }

(* ------------------------------ actions -------------------------------- *)
Free(r) == req[r].pc = "idle"

\* a request whose handler has finished leaves its slot
Release(r) ==
  /\ req[r].pc \in {"done", "rejected"}
  /\ req' = [req EXCEPT ![r] = Idle]
  /\ UNCHANGED <<apiKey, openai, constructed>>

\* POST /api/character arrives in slot r
PostCharacter(r, bodies) ==
  /\ Free(r)
  /\ \E b \in bodies :
       LET o == CharacterSync(b, apiKey, openai, constructed)
       IN /\ req' = [req EXCEPT ![r] = o.q]
          /\ openai' = o.openai
          /\ constructed' = o.constructed
  /\ UNCHANGED apiKey

\* POST /api/story arrives in slot r
PostStory(r, bodies) ==
  /\ Free(r)
  /\ \E b \in bodies :
       LET o == StorySync(b, apiKey, openai, constructed)
       IN /\ req' = [req EXCEPT ![r] = o.q]
          /\ openai' = o.openai
          /\ constructed' = o.constructed
  /\ UNCHANGED apiKey

\* POST /api/ask arrives in slot r
PostAsk(r, bodies) ==
  /\ Free(r)
  /\ \E b \in bodies :
       LET o == AskSync(b, apiKey, openai, constructed)
       IN /\ req' = [req EXCEPT ![r] = o.q]
          /\ openai' = o.openai
          /\ constructed' = o.constructed
  /\ UNCHANGED apiKey

\* the awaited completion of /api/character resolves with some content
CharacterResolves(r, texts) ==
  /\ req[r].route = "character" /\ req[r].pc = "create"
  /\ \E t \in texts : req' = [req EXCEPT ![r] = CharacterResume(req[r], t)]
  /\ UNCHANGED <<apiKey, openai, constructed>>

\* the awaited completion of /api/story resolves with some content
StoryResolves(r, texts) ==
  /\ req[r].route = "story" /\ req[r].pc = "create"
  /\ \E t \in texts : req' = [req EXCEPT ![r] = StoryResume(req[r], t)]
  /\ UNCHANGED <<apiKey, openai, constructed>>

\* the awaited gateway call rejects (network, authentication, status)
CreateRejects(r) ==
  /\ req[r].pc = "create"
  /\ req' = [req EXCEPT ![r] =
       Catch(req[r],
             CASE req[r].route = "character" -> "Character generation failed"
               [] req[r].route = "story" -> "Story generation failed"
               [] OTHER -> "Ask endpoint failed",
             "gateway", "Connection error.")]
  /\ UNCHANGED <<apiKey, openai, constructed>>

\* the awaited streaming call of /api/ask resolves with a stream
AskStreamOpens(r) ==
  /\ req[r].route = "ask" /\ req[r].pc = "create"
  /\ req' = [req EXCEPT ![r].pc = "stream"]
  /\ UNCHANGED <<apiKey, openai, constructed>>

\* the stream delivers its next chunk
AskStreamChunk(r, contents) ==
  /\ req[r].pc = "stream"
  /\ Len(req[r].chunks) < MaxFrags
  /\ \E c \in contents : req' = [req EXCEPT ![r] = AskChunk(req[r], c)]
  /\ UNCHANGED <<apiKey, openai, constructed>>

\* the stream ends normally
AskStreamEnds(r) ==
  /\ req[r].pc = "stream"
  /\ req' = [req EXCEPT ![r] = AskEnd(req[r])]
  /\ UNCHANGED <<apiKey, openai, constructed>>

\* AskStreamFails with the [DONE] frame written on the way out of the
\* handler, as from a finally block: a failed stream gets it too
AskStreamFails_DoneInFinally(r) ==
  /\ req[r].pc = "stream"
  /\ req' = [req EXCEPT ![r] =
       Catch(ResWrite(req[r], DoneFrame), "Ask endpoint failed", "stream",
             "Premature close")]
  /\ UNCHANGED <<apiKey, openai, constructed>>

\* the stream throws inside for await
AskStreamFails(r) ==
  /\ req[r].pc = "stream"
  /\ req' = [req EXCEPT ![r] =
       Catch(req[r], "Ask endpoint failed", "stream", "Premature close")]
  /\ UNCHANGED <<apiKey, openai, constructed>>

\* the caller of an /api/ask in progress closes its connection; no handler
\* listens for it
Disconnect(r) ==
  /\ req[r].route = "ask" /\ req[r].pc \in {"create", "stream"}
  /\ req[r].connected
  /\ req' = [req EXCEPT ![r].connected = FALSE]
  /\ UNCHANGED <<apiKey, openai, constructed>>

\* POST /api/ask arrives at the backup server; the OpenAI constructor of
\* line 18 throws at start-up without a key, so this server only ever
\* serves with the credential present
PostAskBackup(r, bodies) ==
  /\ Free(r)
  /\ apiKey
  /\ \E b \in bodies : req' = [req EXCEPT ![r] = BackupAskSync(b)]
  /\ UNCHANGED <<apiKey, openai, constructed>>

\* the backup server's awaited streaming call resolves with a stream
BackupStreamOpens(r) ==
  /\ req[r].pc = "b_create"
  /\ req' = [req EXCEPT ![r].pc = "b_stream"]
  /\ UNCHANGED <<apiKey, openai, constructed>>

\* the backup server's awaited streaming call rejects
BackupCreateRejects(r) ==
  /\ req[r].pc = "b_create"
  /\ \E s \in ErrorStatuses :
       req' = [req EXCEPT ![r] =
         BackupCatch(req[r], "gateway", "Connection error.",
                     IF s = Undef THEN NullV ELSE s)]
  /\ UNCHANGED <<apiKey, openai, constructed>>

\* the backup server's stream delivers its next chunk
BackupStreamChunk(r, contents) ==
  /\ req[r].pc = "b_stream"
  /\ Len(req[r].chunks) < MaxFrags
  /\ \E c \in contents : req' = [req EXCEPT ![r] = BackupChunk(req[r], c)]
  /\ UNCHANGED <<apiKey, openai, constructed>>

\* the backup server's stream ends normally
BackupStreamEnds(r) ==
  /\ req[r].pc = "b_stream"
  /\ req' = [req EXCEPT ![r] = BackupEnd(req[r])]
  /\ UNCHANGED <<apiKey, openai, constructed>>

\* the backup server's stream throws inside for await
BackupStreamFails(r) ==
  /\ req[r].pc = "b_stream"
  /\ \E s \in ErrorStatuses :
       req' = [req EXCEPT ![r] =
         BackupCatch(req[r], "stream", "Premature close",
                     IF s = Undef THEN NullV ELSE s)]
  /\ UNCHANGED <<apiKey, openai, constructed>>

\* GET /healthz arrives in slot r
GetHealthz(r) ==
  /\ Free(r)
  /\ req' = [req EXCEPT ![r] = Healthz]
  /\ UNCHANGED <<apiKey, openai, constructed>>

\* POST /api/character arrives at the server of src/server.js
PostCharacterServerJs(r, bodies) ==
  /\ Free(r)
  /\ \E b \in bodies :
       LET o == ServerJsCharacterSync(b, apiKey, openai, constructed)
       IN /\ req' = [req EXCEPT ![r] = o.q]
          /\ openai' = o.openai
          /\ constructed' = o.constructed
  /\ UNCHANGED apiKey

\* its awaited completion resolves with some content
ServerJsCharacterResolves(r, texts) ==
  /\ req[r].pc = "s_create"
  /\ \E t \in texts : req' = [req EXCEPT ![r] = CharacterResume(req[r], t)]
  /\ UNCHANGED <<apiKey, openai, constructed>>

\* its awaited gateway call rejects
ServerJsCreateRejects(r) ==
  /\ req[r].pc = "s_create"
  /\ req' = [req EXCEPT ![r] =
       Catch(req[r], "Character generation failed", "gateway", "Connection error.")]
  /\ UNCHANGED <<apiKey, openai, constructed>>

(* --------------------------- specifications ---------------------------- *)
Init ==
  /\ apiKey \in BOOLEAN
  /\ openai = 0
  /\ constructed = 0
  /\ req = [r \in Reqs |-> Idle]

\* one request after the other, over the full input sets
Next ==
  \/ PostCharacter(1, CharacterBodies)
  \/ PostStory(1, StoryBodies)
  \/ PostAsk(1, AskBodies)
  \/ CharacterResolves(1, CharacterTexts)
  \/ StoryResolves(1, StoryTexts)
  \/ CreateRejects(1)
  \/ AskStreamOpens(1)
  \/ AskStreamChunk(1, ChunkContents)
  \/ AskStreamEnds(1)
  \/ AskStreamFails(1)
  \/ Disconnect(1)
  \/ PostAskBackup(1, BackupBodies)
  \/ BackupStreamOpens(1)
  \/ BackupCreateRejects(1)
  \/ BackupStreamChunk(1, ChunkContents)
  \/ BackupStreamEnds(1)
  \/ BackupStreamFails(1)
  \/ GetHealthz(1)
  \/ PostCharacterServerJs(1, ServerJsBodies)
  \/ ServerJsCharacterResolves(1, {Text(TRUE, MkObj(CharacterDoc)), Text(FALSE, Undef)})
  \/ ServerJsCreateRejects(1)
  \/ Release(1)

Spec == Init /\ [][Next]_vars

\* up to MaxReqs requests in flight at once, interleaved at their awaits,
\* over a few bodies and answers per route
NextConc ==
  \E r \in Reqs :
    \/ PostCharacter(r, {MkObj(<<>>), MkObj([prompt |-> Str("")])})
    \/ PostStory(r, {MkObj(<<>>), MkObj([minutes |-> IntV(16)])})
    \/ PostAsk(r, {MkObj(<<>>), MkObj([question |-> Str("why")])})
    \/ CharacterResolves(r, {Text(TRUE, MkObj(CharacterDoc)), Text(FALSE, Undef)})
    \/ StoryResolves(r, {Text(TRUE, MkObj(StoryDoc)), Text(FALSE, Undef)})
    \/ CreateRejects(r)
    \/ AskStreamOpens(r)
    \/ AskStreamChunk(r, {Str("Hel")})
    \/ AskStreamEnds(r)
    \/ AskStreamFails(r)
    \/ Disconnect(r)
    \/ GetHealthz(r)
    \/ Release(r)

SpecConc == Init /\ [][NextConc]_vars

(* ------------------------------ claims --------------------------------- *)
Finished(q) == q.pc \in {"done", "rejected"}

\* the body of a character/story request does not pass its request schema
InvalidBody(q) ==
  \/ q.route = "character" /\ ~CharacterReq(q.body).ok
  \/ q.route = "story" /\ ~StoryReq(q.body).ok

\* C1: a POST to /api/character or /api/story whose body fails request
\* validation ends at once, without obtaining or constructing the gateway
\* client and without a gateway call; and a gateway call is only ever made
\* after validation has produced the validated value.
C1_ValidationGatesGateway ==
  [][\A r \in Reqs :
       /\ (req[r].pc = "idle" /\ req'[r].pc # "idle" /\ InvalidBody(req'[r]))
            => /\ Finished(req'[r])
               /\ req'[r].calls = <<>>
               /\ req'[r].client = 0
               /\ openai' = openai
               /\ constructed' = constructed
       /\ (req'[r].route \in {"character", "story"} /\ req'[r].calls # <<>>)
            => req'[r].validated # Undef /\ ~InvalidBody(req'[r])]_vars

\* an out-of-range minutes was posted while the credential is present
C1_Witness ==
  \E r \in Reqs :
    /\ apiKey
    /\ req[r].route = "story" /\ Finished(req[r])
    /\ Get(req[r].body, "minutes") = IntV(16)
    /\ req[r].calls = <<>>

\* C2: a character/story request that fails validation is answered 400,
\* an upstream or parse failure 500.
C2_ValidationIs400 ==
  \A r \in Reqs :
    (req[r].route \in {"character", "story"} /\ Finished(req[r]))
      => /\ InvalidBody(req[r]) => req[r].status = 400
         /\ req[r].cause \in {"gateway", "parse", "shape"} => req[r].status = 500

\* the frames a caller must see for the chunk contents cs, in order
RECURSIVE ExpectedFrames(_)
ExpectedFrames(cs) ==
  IF cs = <<>> THEN <<>>
  ELSE LET c == Head(cs)
       IN (IF c.t = "string" /\ c.v # ""
           THEN <<"data: {\"content\":\"" \o c.v \o "\"}\n\n">>
           ELSE <<>>) \o ExpectedFrames(Tail(cs))

\* C3: on /api/ask, a connected caller has seen, at every moment of the
\* stream, exactly one data frame per non-empty fragment read so far, in
\* arrival order; when the stream ends normally one [DONE] frame follows
\* and the response is ended.
C3_FramesInOrderThenDone ==
  \A r \in Reqs :
    (req[r].route = "ask" /\ req[r].connected)
      => /\ req[r].pc = "stream"
              => req[r].frames = ExpectedFrames(req[r].chunks) /\ ~req[r].ended
         /\ (req[r].pc = "done" /\ req[r].cause = "")
              => /\ req[r].frames
                      = ExpectedFrames(req[r].chunks) \o <<"data: [DONE]\n\n">>
                 /\ req[r].ended

\* the stream Hel, "", lo has ended normally
C3_Witness ==
  \E r \in Reqs :
    /\ req[r].route = "ask" /\ req[r].pc = "done" /\ req[r].cause = ""
    /\ req[r].connected
    /\ req[r].chunks = <<Str("Hel"), Str(""), Str("lo")>>
    /\ Len(req[r].frames) = 3

\* an error reached the caller: a JSON error body, or a frame that is
\* neither a data frame nor [DONE]
ErrorSignalled(q) ==
  \/ Get(q.resBody, "error") # Undef
  \/ \E i \in 1..Len(q.frames) :
       q.frames[i] \notin {"data: [DONE]\n\n"}
                          \cup {DataFrame(c.v) : c \in {c \in ChunkContents : c.t = "string"}}

\* C4: an /api/ask request whose gateway call or stream failed after the
\* SSE head was sent has its response closed once the handler is through,
\* with an error signalled when no fragment had been flushed.
C4_FailedStreamCloses ==
  \A r \in Reqs :
    (req[r].route = "ask" /\ Finished(req[r])
       /\ req[r].cause \in {"gateway", "stream"})
      => /\ req[r].ended
         /\ req[r].frames = <<>> => ErrorSignalled(req[r])

\* C7: once the caller of an /api/ask stream has disconnected, no further
\* chunk is read from the gateway and nothing more is written.
C7_StopsOnDisconnect ==
  \A r \in Reqs : req[r].lateReads = 0 /\ req[r].lateWrites = 0

\* C6: no failure leaves a handler as a rejected promise, and every failed
\* request has a JSON error body.
C6_FailuresCaught ==
  \A r \in Reqs :
    /\ req[r].pc # "rejected"
    /\ (Finished(req[r]) /\ req[r].cause # "")
         => Get(req[r].resBody, "error") # Undef

\* C8: the client is constructed at most once; every request that obtained
\* a client holds that one handle; without the credential nothing is
\* constructed, cached or handed out.
C8_ClientConstructedOnce ==
  /\ constructed <= 1
  /\ openai = constructed
  /\ \A r \in Reqs : req[r].client \in {0, openai}
  /\ ~apiKey => /\ constructed = 0
                /\ \A r \in Reqs : req[r].client = 0 /\ req[r].calls = <<>>

\* two requests are in flight on the one client
C8_Witness ==
  /\ constructed = 1
  /\ \E r1, r2 \in Reqs :
       /\ r1 # r2
       /\ req[r1].pc = "create" /\ req[r2].pc \in {"create", "stream"}
       /\ req[r1].client = 1 /\ req[r2].client = 1

\* the documented default of each request field
DefaultOf(route, k) ==
  CASE route = "character" /\ k = "prompt" -> Str("Create a kid-friendly STEM character.")
    [] route = "character" /\ k = "audience" -> Str("ages 6-10")
    [] route = "character" /\ k = "style" -> Str("bright 2D cartoon")
    [] route = "character" /\ k = "constraints" -> Str("original; no resemblance to existing IP")
    [] route = "story" /\ k = "title" -> Str("Adventure in Volcano Valley")
    [] route = "story" /\ k = "topic" -> Str("volcano science")
    [] route = "story" /\ k = "target_age" -> Str("6-10")
    [] route = "story" /\ k = "minutes" -> IntV(3)
    [] route = "story" /\ k = "characters" -> Arr(<<>>)
    [] route = "story" /\ k = "moral" -> Str("Curiosity + safety")
    [] route = "story" /\ k = "educational_goals" ->
         Arr(<<Str("Basic volcano formation"), Str("Safety around natural phenomena"),
               Str("Scientific observation skills")>>)

FieldsOf(route) ==
  IF route = "character"
  THEN {"prompt", "audience", "style", "constraints"}
  ELSE {"title", "topic", "target_age", "minutes", "characters", "moral",
        "educational_goals"}

\* C9: {} posted to /api/character validates to the four defaults and, the
\* client being available, the gateway is called with the user prompt built
\* from them; in general a validated character/story request has exactly
\* the schema's fields, each the posted value or, where omitted, its default.
C9_DefaultsApplied ==
  \A r \in Reqs :
    /\ (req[r].route = "character" /\ req[r].body = Obj(<<>>))
         => /\ req[r].validated
                 = Obj([prompt |-> Str("Create a kid-friendly STEM character."),
                        audience |-> Str("ages 6-10"),
                        style |-> Str("bright 2D cartoon"),
                        constraints |-> Str("original; no resemblance to existing IP")])
            /\ apiKey => req[r].calls # <<>>
            /\ req[r].calls # <<>> => req[r].calls[1].user =
                 "Design a character with these requirements: Create a kid-friendly STEM character.. Target audience: ages 6-10. Style: bright 2D cartoon. Constraints: original; no resemblance to existing IP"
    /\ (req[r].route = "story" /\ req[r].body = Obj(<<>>))
         => req[r].validated # Undef
    /\ (req[r].route \in {"character", "story"} /\ req[r].validated # Undef)
         => /\ DOMAIN req[r].validated.v = FieldsOf(req[r].route)
            /\ \A k \in FieldsOf(req[r].route) :
                 req[r].validated.v[k] =
                   IF k \in DOMAIN req[r].body.v THEN req[r].body.v[k]
                   ELSE DefaultOf(req[r].route, k)

\* {} was posted to /api/character and the gateway call is under way
C9_Witness ==
  \E r \in Reqs :
    /\ req[r].route = "character" /\ req[r].body = Obj(<<>>)
    /\ req[r].pc = "create"

\* an array whose elements are all strings
IsStrings(x) == x.t = "array" /\ \A i \in 1..Len(x.v) : x.v[i].t = "string"

HasString(d, k) == k \in DOMAIN d.v /\ d.v[k].t = "string"

HasNumber(d, k) == k \in DOMAIN d.v /\ d.v[k].t = "number"

\* d is a JSON object of the CharacterResult shape of the data model
CharacterShape(d) ==
  /\ d.t = "object"
  /\ \A k \in {"name", "species_or_type", "visual_description", "personality",
               "stem_domain", "do_not_copy"} : HasString(d, k)
  /\ \A k \in {"catchphrases", "strengths", "quirks", "color_palette"} :
       k \in DOMAIN d.v => IsStrings(d.v[k])

\* d is a JSON object of the StoryResult shape
StoryShape(d) ==
  /\ d.t = "object"
  /\ \A k \in {"title", "opening", "closing", "moral"} : HasString(d, k)
  /\ HasNumber(d, "total_duration")
  /\ "educational_goals" \in DOMAIN d.v /\ IsStrings(d.v["educational_goals"])
  /\ "scenes" \in DOMAIN d.v /\ d.v["scenes"].t = "array"
  /\ \A i \in 1..Len(d.v["scenes"].v) :
       LET sc == d.v["scenes"].v[i]
       IN /\ sc.t = "object"
          /\ \A k \in {"setting", "action", "dialogue"} : HasString(sc, k)
          /\ HasNumber(sc, "duration")

\* the gateway answered q, a character/story request, with text that is
\* not JSON or with JSON that is not of the route's result shape
BadAnswer(q) ==
  /\ q.route \in {"character", "story"} /\ Finished(q)
  /\ "wf" \in DOMAIN q.text
  /\ \/ ~q.text.wf
     \/ q.route = "character" /\ ~CharacterShape(q.text.doc)
     \/ q.route = "story" /\ ~StoryShape(q.text.doc)

TenKeys ==
  {"name", "species_or_type", "visual_description", "personality", "catchphrases",
   "strengths", "quirks", "stem_domain", "color_palette", "do_not_copy"}

\* the gateway answered q, a character request, with a JSON document of the
\* CharacterResult shape
GoodCharacterAnswer(q) ==
  /\ q.route = "character" /\ Finished(q)
  /\ "wf" \in DOMAIN q.text
  /\ q.text.wf /\ CharacterShape(q.text.doc)

\* C10 as stated: a document of the CharacterResult shape (with no key
\* outside the shape) comes back with status 200, field for field.
C10_RoundTripExact ==
  \A r \in Reqs :
    (GoodCharacterAnswer(req[r]) /\ DOMAIN req[r].text.doc.v \subseteq TenKeys)
      => req[r].status = 200 /\ req[r].resBody = req[r].text.doc

\* C10, amended: a document of the CharacterResult shape comes back with
\* status 200 as the document's ten shape fields, an omitted optional array
\* as [], other keys dropped; so a document with exactly the ten fields
\* comes back unchanged.
C10_RoundTripUpToDefaults ==
  \A r \in Reqs :
    GoodCharacterAnswer(req[r])
      => LET doc == req[r].text.doc
         IN /\ req[r].status = 200
            /\ req[r].resBody =
                 Obj([k \in TenKeys |->
                        IF k \in DOMAIN doc.v THEN doc.v[k] ELSE Arr(<<>>)])
            /\ DOMAIN doc.v = TenKeys => req[r].resBody = doc

\* the gateway answered with a document of exactly the ten fields
C10_Witness ==
  \E r \in Reqs :
    /\ GoodCharacterAnswer(req[r])
    /\ DOMAIN req[r].text.doc.v = TenKeys
    /\ req[r].resBody = req[r].text.doc

\* the body carries no question: the key is absent, null or the empty string
NoQuestion(q) ==
  /\ q.route \in {"ask", "ask_backup"}
  /\ Get(q.body, "question") \in {Undef, NullV, Str("")}

\* C11: a POST to /api/ask without a question is answered at once with
\* status 400 and a JSON error body: no SSE head and no frame was written,
\* the gateway client was neither obtained nor constructed, and no gateway
\* call was made.
C11_NoQuestionIs400 ==
  [][\A r \in Reqs :
       (req[r].pc = "idle" /\ req'[r].pc # "idle" /\ NoQuestion(req'[r]))
         => /\ req'[r].pc = "done"
            /\ req'[r].status = 400
            /\ req'[r].resBody.t = "object"
            /\ "error" \in DOMAIN req'[r].resBody.v
            /\ req'[r].ended
            /\ req'[r].frames = <<>>
            /\ req'[r].calls = <<>>
            /\ req'[r].client = 0
            /\ openai' = openai
            /\ constructed' = constructed]_vars

\* a question-less /api/ask was answered 400 while the credential is present
\* and no client exists yet
C11_Witness ==
  \E r \in Reqs :
    /\ apiKey /\ openai = 0
    /\ req[r].route = "ask" /\ NoQuestion(req[r])
    /\ req[r].pc = "done" /\ req[r].status = 400

GatewayRoutes == {"character", "story", "ask"}

\* the request passes every check its handler makes before getOpenAI()
NeedsClient(q) ==
  \/ q.route = "character" /\ CharacterReq(q.body).ok
  \/ q.route = "story" /\ StoryReq(q.body).ok
  \/ q.route = "ask" /\ Truthy(Get(q.body, "question"))

\* C12: GET /healthz is answered 200 in every state, with or without the
\* credential, and leaves the gateway client alone; while the credential is
\* absent, every request to /api/character, /api/story or /api/ask fails at
\* once with a JSON error body and without a client or a gateway call, and
\* a request that got as far as needing the client is answered 500 with the
\* missing-credential message.
C12_HealthWithoutCredential ==
  [][\A r \in Reqs :
       (req[r].pc = "idle" /\ req'[r].pc # "idle")
         => /\ req'[r].route = "healthz"
                 => /\ req'[r].pc = "done"
                    /\ req'[r].status = 200
                    /\ req'[r].resBody.t = "object"
                    /\ req'[r].ended
                    /\ req'[r].client = 0 /\ req'[r].calls = <<>>
                    /\ openai' = openai /\ constructed' = constructed
            /\ (~apiKey /\ req'[r].route \in GatewayRoutes)
                 => /\ req'[r].pc = "done"
                    /\ req'[r].calls = <<>> /\ req'[r].client = 0
                    /\ openai' = 0 /\ constructed' = 0
                    /\ req'[r].frames = <<>>
                    /\ req'[r].resBody.t = "object"
                    /\ "error" \in DOMAIN req'[r].resBody.v
                    /\ req'[r].status \in {400, 500}
                    /\ NeedsClient(req'[r])
                         => /\ req'[r].status = 500
                            /\ req'[r].cause = "credential"
                            /\ Get(req'[r].resBody, "details")
                                 = Str("OPENAI_API_KEY not set")]_vars

\* without the credential, one caller has its health answer while another's
\* question was refused for the missing credential
C12_Witness ==
  \E a, b \in Reqs :
    /\ ~apiKey
    /\ req[a].route = "healthz" /\ req[a].status = 200 /\ req[a].pc = "done"
    /\ req[b].route = "ask" /\ req[b].cause = "credential" /\ req[b].status = 500

\* the string s has sub as a substring
Contains(s, sub) ==
  \E i \in 1..(Len(s) - Len(sub) + 1) : SubSeq(s, i, i + Len(sub) - 1) = sub

\* the text of a string or number inside a template literal
Verbatim(x) == IF x.t = "string" THEN x.v ELSE ToString(x.v)

\* the validated value x shows in the prompt text: a string or number as it
\* is, an array through each of its elements
AppearsIn(x, prompt) ==
  IF x.t = "array"
  THEN \A i \in DOMAIN x.v : Contains(prompt, Verbatim(x.v[i]))
  ELSE Contains(prompt, Verbatim(x))

\* the request fields the prompt of each route is said to carry
PromptFields(route) ==
  IF route = "character"
  THEN {"prompt", "audience", "style", "constraints"}
  ELSE {"title", "topic", "target_age", "minutes", "characters", "moral",
        "educational_goals"}

\* C13: the user prompt handed to the gateway by /api/character carries the
\* validated prompt, audience, style and constraints, and the one handed
\* over by /api/story carries the validated title, topic, target_age,
\* minutes, characters, moral and educational_goals, each verbatim.
C13_EveryFieldInPrompt ==
  \A r \in Reqs :
    (req[r].route \in {"character", "story"} /\ req[r].calls # <<>>)
      => \A k \in PromptFields(req[r].route) :
           AppearsIn(Get(req[r].validated, k), req[r].calls[1].user)

\* the minutes a story request may carry: none, or an integer from 1 to 15
MinutesAccepted(m) ==
  m = Undef \/ (m.t = "number" /\ ~m.half /\ m.v \in 1..15)

\* C14: StoryReq accepts minutes exactly when it is absent (validated as 3)
\* or an integer from 1 to 15 (validated as posted); 0, 16, a negative
\* number, a non-integer and a non-number are refused with a validation
\* error that names minutes, before any gateway call.
C14_MinutesRange ==
  \A r \in Reqs :
    (req[r].route = "story" /\ req[r].pc # "idle")
      => LET m == Get(req[r].body, "minutes")
         IN /\ req[r].validated # Undef
                 => /\ MinutesAccepted(m)
                    /\ Get(req[r].validated, "minutes")
                         = IF m = Undef THEN IntV(3) ELSE m
            /\ ~MinutesAccepted(m)
                 => /\ req[r].validated = Undef
                    /\ req[r].cause = "validation"
                    /\ Contains(req[r].error, "minutes")
                    /\ req[r].calls = <<>>
            /\ (MinutesAccepted(m) /\ req[r].body.t = "object"
                  /\ DOMAIN req[r].body.v \subseteq {"minutes"})
                 => req[r].validated # Undef

\* a story of the longest allowed duration went to the gateway
C14_Witness ==
  \E r \in Reqs :
    /\ req[r].route = "story"
    /\ Get(req[r].body, "minutes") = IntV(15)
    /\ Get(req[r].validated, "minutes") = IntV(15)
    /\ req[r].calls # <<>>

\* C15: once the head of a request's response is out (a JSON reply or the
\* SSE head), no later step of that request sets a status or sends a JSON
\* body again: the status line and the JSON body of a response, once sent,
\* are never touched by its handler on any path, error paths included.
C15_OneResponsePerRequest ==
  [][\A r \in Reqs :
       (req[r].headersSent /\ req'[r].pc # "idle")
         => /\ req'[r].status = req[r].status
            /\ req'[r].resBody = req[r].resBody
            /\ req'[r].headersSent]_vars

\* C16: in the copy of /api/character in src/server.js, a request whose
\* body is a JSON object, the empty object included, is not answered
\* "Invalid JSON": it passes the safeParseJSON step and reaches CharacterReq
\* validation, which either yields the validated value or fails as a
\* validation error.
C16_ObjectBodyReachesValidation ==
  \A r \in Reqs :
    (req[r].route = "character_sjs" /\ req[r].pc # "idle"
       /\ req[r].body.t = "object")
      => /\ req[r].resBody # MkObj([error |-> Str("Invalid JSON")])
         /\ CharacterReq(req[r].body).ok
              => req[r].validated = CharacterReq(req[r].body).value
         /\ ~CharacterReq(req[r].body).ok => req[r].cause = "validation"

\* the backup handler wrote at least one fragment of the answer
OutputBegan(q) == \E i \in DOMAIN q.chunks : Truthy(q.chunks[i])

\* C17: in the backup server's /api/ask, a gateway failure before any
\* fragment was written is answered with status 500 and the JSON body
\* {error: "ask_failed", ...}; a failure after output began ends the
\* response with the trailer "[stream closed due to error]".
C17_FailureBeforeOutputIs500 ==
  \A r \in Reqs :
    (req[r].route = "ask_backup" /\ req[r].cause \in {"gateway", "stream"})
      => IF OutputBegan(req[r])
         THEN /\ req[r].frames # <<>>
              /\ req[r].frames[Len(req[r].frames)] = BackupTrailer
              /\ req[r].ended
         ELSE /\ req[r].status = 500
              /\ Get(req[r].resBody, "error") = Str("ask_failed")

\* the number of frames of fs equal to f
RECURSIVE Count(_, _)
Count(fs, f) ==
  IF fs = <<>> THEN 0
  ELSE (IF Head(fs) = f THEN 1 ELSE 0) + Count(Tail(fs), f)

EmptyDataFrame == "data: {\"content\":\"\"}\n\n"

\* C18: among the frames of an /api/ask response the [DONE] frame occurs at
\* most once, only when the upstream stream ended normally, and then as the
\* last frame of the ended response; no frame carries empty content; a
\* request whose gateway call or stream failed has no [DONE] frame.
C18_DoneOnceAndLast ==
  \A r \in Reqs :
    req[r].route = "ask"
      => LET fs == req[r].frames
         IN /\ Count(fs, DoneFrame) <= 1
            /\ Count(fs, DoneFrame) = 1
                 => /\ fs[Len(fs)] = DoneFrame
                    /\ req[r].pc = "done" /\ req[r].ended
                    /\ req[r].cause = ""
            /\ \A i \in DOMAIN fs :
                 /\ fs[i] # EmptyDataFrame
                 /\ fs[i] # DoneFrame => Contains(fs[i], "data: {\"content\":\"")
            /\ req[r].cause \in {"gateway", "stream"} => Count(fs, DoneFrame) = 0
            /\ (req[r].pc = "done" /\ req[r].cause = "" /\ req[r].connected)
                 => Count(fs, DoneFrame) = 1

\* a stream with an empty chunk among its fragments ended normally: data
\* frames, then [DONE]
C18_Witness ==
  \E r \in Reqs :
    /\ req[r].route = "ask" /\ req[r].pc = "done"
    /\ Len(req[r].frames) >= 2
    /\ req[r].frames[Len(req[r].frames)] = DoneFrame
    /\ \E i \in DOMAIN req[r].chunks : req[r].chunks[i] = Str("")

====
